---- MODULE Spec2Model ----
(***************************************************************************)
(* Model of src/main.cpp: a parallel aggregation of `key;value` lines.     *)
(* The input file is a sequence of bytes (ASCII codes).  The main thread   *)
(* maps the file, cuts it into num_threads chunks, starts one worker per   *)
(* chunk, joins them, unmaps the file and writes the report.  Each worker  *)
(* scans its chunk line by line into a private table and folds that table  *)
(* into the shared table under one mutex.                                  *)
(*                                                                         *)
(* The C++ type float is modelled bit-exactly as IEEE-754 binary32 with    *)
(* round-to-nearest-even: a float is a record [s, m, e] standing for       *)
(* (-1)^s * m * 2^e with m = 0 or 2^23 <= m < 2^24.  Subnormals, infinity  *)
(* and NaN are not modelled: the inputs of the model keep every magnitude  *)
(* between 2^-20 and 2^20.                                                 *)
(***************************************************************************)
EXTENDS Integers, Sequences, FiniteSets, TLC

(***************************************************************************)
(* Bytes the code names.                                                   *)
(***************************************************************************)
NL == 10
MINUS == 45
DOT == 46
ZERO == 48
SEMI == 59

(***************************************************************************)
(* binary32 arithmetic                                                     *)
(***************************************************************************)
MantBits == 24

F(s, m, e) == [s |-> s, m |-> m, e |-> e]

\* Op(x) with x evaluated once, as C++ evaluates an expression once before
\* it stores or passes its value.
Eager(Op(_), x) == CHOOSE r \in { Op(v) : v \in { x } } : TRUE

\* The number of bits of n.
RECURSIVE BitLen(_)
BitLen(n) == IF n = 0 THEN 0
             ELSE IF n >= 2^MantBits THEN MantBits + BitLen(n \div 2^MantBits)
             ELSE IF n >= 2^12 THEN 12 + BitLen(n \div 2^12)
             ELSE 1 + BitLen(n \div 2)

\* The float nearest to (-1)^s * sig * 2^e, ties to even.  When the exact
\* value has bits below sig, the caller has OR-ed a sticky bit into sig's
\* lowest bit and left at least two bits below the 24 kept.
FRound(s, sig, e) ==
    LET round(v) ==
            IF v = 0 THEN F(s, 0, 0)
            ELSE LET shift(k) ==
                         IF k <= 0 THEN F(s, v * 2^(0 - k), e + k)
                         ELSE LET q    == v \div 2^k
                                  r    == v % 2^k
                                  half == 2^(k - 1)
                                  up   == r > half \/ (r = half /\ q % 2 = 1)
                              IN  IF up /\ q + 1 = 2^MantBits
                                  THEN F(s, 2^(MantBits - 1), e + k + 1)
                                  ELSE F(s, IF up THEN q + 1 ELSE q, e + k)
                 IN  Eager(shift, BitLen(v) - MantBits)
    IN  Eager(round, sig)

\* static_cast<float>(n) of a small integer n.
FromInt(n) == IF n < 0 THEN FRound(1, 0 - n, 0) ELSE FRound(0, n, 0)

FNeg(a) == [a EXCEPT !.s = 1 - a.s]

\* a < b on floats (-0 and +0 compare equal).
FLess(a, b) ==
    IF a.m = 0 /\ b.m = 0 THEN FALSE
    ELSE IF a.m = 0 THEN b.s = 0
    ELSE IF b.m = 0 THEN a.s = 1
    ELSE IF a.s # b.s THEN a.s = 1
    ELSE IF a.s = 0 THEN a.e < b.e \/ (a.e = b.e /\ a.m < b.m)
    ELSE b.e < a.e \/ (a.e = b.e /\ b.m < a.m)

\* a == b on floats.
FEq(a, b) == ~FLess(a, b) /\ ~FLess(b, a)

\* a + b: the operand of smaller magnitude is aligned to the larger one with
\* three extra bits (guard, round, sticky), then the sum is rounded once.
FAdd(a, b) ==
    IF a.m = 0 /\ b.m = 0 THEN F(IF a.s = 1 /\ b.s = 1 THEN 1 ELSE 0, 0, 0)
    ELSE IF a.m = 0 THEN b
    ELSE IF b.m = 0 THEN a
    ELSE LET aBig == a.e > b.e \/ (a.e = b.e /\ a.m >= b.m)
             big  == IF aBig THEN a ELSE b
             sml  == IF aBig THEN b ELSE a
             d    == big.e - sml.e
         IN  IF d >= MantBits + 3 THEN big
             ELSE LET x  == big.m * 8
                      sh == sml.m * 8
                      yq == sh \div 2^d
                      y  == IF sh % 2^d # 0 /\ yq % 2 = 0 THEN yq + 1 ELSE yq
                  IN  IF big.s = sml.s THEN FRound(big.s, x + y, big.e - 3)
                      ELSE IF x = y THEN F(0, 0, 0)
                      ELSE FRound(big.s, x - y, big.e - 3)

\* a * b: the 48-bit product of the significands is formed from 12-bit
\* halves, then rounded once.
FMul(a, b) ==
    IF a.m = 0 \/ b.m = 0 THEN F((a.s + b.s) % 2, 0, 0)
    ELSE LET h    == 2^12
             ah   == a.m \div h
             al   == a.m % h
             bh   == b.m \div h
             bl   == b.m % h
             lo   == al * bl
             s1   == ah * bl + al * bh + (lo \div h)
             top  == ah * bh + (s1 \div h)
             rem  == (s1 % h) * h + (lo % h)
             sigq == top * 16 + (rem \div 2^20)
             sig  == IF rem % 2^20 # 0 /\ sigq % 2 = 0 THEN sigq + 1 ELSE sigq
         IN  FRound((a.s + b.s) % 2, sig, a.e + b.e + 20)

(***************************************************************************)
(* The input buffer.  Offsets are the code's 0-based byte offsets; data is *)
(* a sequence, so the byte at offset p is data[p + 1].  past is what a     *)
(* read at an offset >= Len(data) finds: a byte, or FAULT when the address *)
(* is not mapped.                                                          *)
(***************************************************************************)
FAULT == 0 - 1

ByteAt(data, p, past) == IF p < Len(data) THEN data[p + 1] ELSE past

(***************************************************************************)
(* parse_float                                                             *)
(***************************************************************************)
Tenth == F(0, 13421773, 0 - 27)

\* while (i < len && str[i] != '.') result = result * 10.0f + float(str[i] - '0')
RECURSIVE IntegerPart(_, _, _, _, _)
IntegerPart(data, p, len, i, result) ==
    IF i < len /\ data[p + i + 1] # DOT
    THEN LET next(r) == IntegerPart(data, p, len, i + 1, r)
         IN  Eager(next, FAdd(FMul(result, FromInt(10)), FromInt(data[p + i + 1] - ZERO)))
    ELSE <<i, result>>

\* while (i < len) { fraction *= 0.1f; result += float(str[i] - '0') * fraction; }
RECURSIVE FractionPart(_, _, _, _, _, _)
FractionPart(data, p, len, i, fraction, result) ==
    IF i < len
    THEN LET add(f)  == LET next(r) == FractionPart(data, p, len, i + 1, f, r)
                        IN  Eager(next, FAdd(result, FMul(FromInt(data[p + i + 1] - ZERO), f)))
         IN  Eager(add, FMul(fraction, Tenth))
    ELSE result

\* parse_float that returns result whether or not a '-' leads.
parse_floatKeepsSign(data, p, len, past) ==
    LET negative == ByteAt(data, p, past) = MINUS
        i0       == IF negative THEN 1 ELSE 0
        ip       == IntegerPart(data, p, len, i0, F(0, 0, 0))
        i1       == ip[1]
    IN  IF i1 < len /\ data[p + i1 + 1] = DOT
        THEN FractionPart(data, p, len, i1 + 1, FromInt(1), ip[2])
        ELSE ip[2]

\* parse_float(data + p, len).  str[0] is read whatever len is.
parse_float(data, p, len, past) ==
    LET negative == ByteAt(data, p, past) = MINUS
        i0       == IF negative THEN 1 ELSE 0
        ip       == IntegerPart(data, p, len, i0, F(0, 0, 0))
        i1       == ip[1]
        result   == IF i1 < len /\ data[p + i1 + 1] = DOT
                    THEN FractionPart(data, p, len, i1 + 1, FromInt(1), ip[2])
                    ELSE ip[2]
    IN  IF negative THEN FNeg(result) ELSE result

(***************************************************************************)
(* locationData and process_line                                           *)
(***************************************************************************)
NewLocation == [count |-> 0, total |-> F(0, 0, 0),
                temp_min |-> FromInt(99), temp_max |-> FromInt(0 - 99)]

EmptyTable == [k \in {} |-> NewLocation]

\* loc_data[key]: the entry of key, default-constructed when absent.
Lookup(tbl, key) == IF key \in DOMAIN tbl THEN tbl[key] ELSE NewLocation

Store(tbl, key, val) == [k \in DOMAIN tbl \cup {key} |-> IF k = key THEN val ELSE tbl[k]]

\* line.find(';') on the line [ls, le): the offset of the first ';', or le.
RECURSIVE FindDelimiter(_, _, _)
FindDelimiter(data, ls, le) ==
    IF ls >= le \/ data[ls + 1] = SEMI THEN ls ELSE FindDelimiter(data, ls + 1, le)

\* AddTemperature without `count++`.
AddTemperatureKeepsCount(v, t) ==
    [count    |-> v.count,
     total    |-> FAdd(v.total, t),
     temp_max |-> IF FLess(v.temp_max, t) THEN t ELSE v.temp_max,
     temp_min |-> IF FLess(t, v.temp_min) THEN t ELSE v.temp_min]

\* AddTemperature with `total = t` for `total += t`.
AddTemperatureAssignsTotal(v, t) ==
    [count    |-> v.count + 1,
     total    |-> t,
     temp_max |-> IF FLess(v.temp_max, t) THEN t ELSE v.temp_max,
     temp_min |-> IF FLess(t, v.temp_min) THEN t ELSE v.temp_min]

\* AddTemperature with `else if` before the test of temp_min.
AddTemperatureElseIf(v, t) ==
    [count    |-> v.count + 1,
     total    |-> FAdd(v.total, t),
     temp_max |-> IF FLess(v.temp_max, t) THEN t ELSE v.temp_max,
     temp_min |-> IF ~FLess(v.temp_max, t) /\ FLess(t, v.temp_min) THEN t ELSE v.temp_min]

\* The entry after one temperature is added to it.
AddTemperature(v, t) ==
    [count    |-> v.count + 1,
     total    |-> FAdd(v.total, t),
     temp_max |-> IF FLess(v.temp_max, t) THEN t ELSE v.temp_max,
     temp_min |-> IF FLess(t, v.temp_min) THEN t ELSE v.temp_min]

\* process_line with the look-up of the entry placed before the test for ';'.
process_lineLooksUpFirst(data, ls, le, tbl, past) ==
    LET dp       == FindDelimiter(data, ls, le)
        location == SubSeq(data, ls + 1, dp)
    IN  IF dp = le THEN Store(tbl, location, Lookup(tbl, location))
        ELSE Store(tbl, location,
                   AddTemperature(Lookup(tbl, location),
                                  parse_float(data, dp + 1, le - dp - 1, past)))

\* process_line on the line [ls, le) of data.
process_line(data, ls, le, tbl, past) ==
    LET dp == FindDelimiter(data, ls, le) IN
    IF dp = le THEN tbl
    ELSE LET location == SubSeq(data, ls + 1, dp)
             add(t)   == Store(tbl, location, AddTemperature(Lookup(tbl, location), t))
         IN  Eager(add, parse_float(data, dp + 1, le - dp - 1, past))

\* Whether process_line on [ls, le) reads the byte after the buffer.
ReadsPastEnd(data, ls, le) ==
    LET dp == FindDelimiter(data, ls, le) IN dp < le /\ dp + 1 >= Len(data)

(***************************************************************************)
(* process_chunk                                                           *)
(***************************************************************************)
\* while (i < end && data[i] != '\n') ++i
RECURSIVE LineEnd(_, _, _)
LineEnd(data, i, end) ==
    IF i < end /\ data[i + 1] # NL THEN LineEnd(data, i + 1, end) ELSE i

\* process_chunk(data, i, end, tbl) run to completion.
RECURSIVE process_chunk(_, _, _, _, _)
process_chunk(data, i, end, tbl, past) ==
    IF i < end
    THEN LET le == LineEnd(data, i, end)
         IN  process_chunk(data, le + 1, end, process_line(data, i, le, tbl, past), past)
    ELSE tbl

\* MergeLocation with `count = value.count` for `count += value.count`.
MergeLocationAssignsCount(v, value) ==
    [count    |-> value.count,
     total    |-> FAdd(v.total, value.total),
     temp_max |-> IF FLess(v.temp_max, value.temp_max) THEN value.temp_max ELSE v.temp_max,
     temp_min |-> IF FLess(value.temp_min, v.temp_min) THEN value.temp_min ELSE v.temp_min]

\* MergeLocation with temp_min taken from the table merged last.
MergeLocationLastMin(v, value) ==
    [count    |-> v.count + value.count,
     total    |-> FAdd(v.total, value.total),
     temp_max |-> IF FLess(v.temp_max, value.temp_max) THEN value.temp_max ELSE v.temp_max,
     temp_min |-> value.temp_min]

\* One stats record folded into another (the body of the merge loop).
MergeLocation(v, value) ==
    [count    |-> v.count + value.count,
     total    |-> FAdd(v.total, value.total),
     temp_max |-> IF FLess(v.temp_max, value.temp_max) THEN value.temp_max ELSE v.temp_max,
     temp_min |-> IF FLess(value.temp_min, v.temp_min) THEN value.temp_min ELSE v.temp_min]

\* a / b for b # 0: 26 quotient bits by long division, then one rounding.
RECURSIVE LongDiv(_, _, _, _)
LongDiv(rem, den, n, q) ==
    IF n = 0 THEN <<q, rem>>
    ELSE IF 2 * rem >= den THEN LongDiv(2 * rem - den, den, n - 1, 2 * q + 1)
    ELSE LongDiv(2 * rem, den, n - 1, 2 * q)

FDiv(a, b) ==
    IF a.m = 0 THEN F((a.s + b.s) % 2, 0, 0)
    ELSE LET qr  == LongDiv(a.m % b.m, b.m, 26, a.m \div b.m)
             sig == IF qr[2] # 0 /\ qr[1] % 2 = 0 THEN qr[1] + 1 ELSE qr[1]
         IN  FRound((a.s + b.s) % 2, sig, a.e - b.e - 26)

(***************************************************************************)
(* Input files of the model: up to MaxLines lines drawn from Lines, each   *)
(* ended by a newline, the last one possibly not; and a few files with     *)
(* lines of other shapes.                                                  *)
(***************************************************************************)
MaxLines == 3
MaxThreads == 3
MaxGroups == 2

Lines == { <<65, 59, 46, 49>>,          \* A;.1
           <<65, 59, 49, 50, 56>>,      \* A;128
           <<66, 59, 45, 50>>,          \* B;-2
           <<66, 59>> }                 \* B;    (empty value)

RECURSIVE Files(_)
Files(n) == IF n = 0 THEN { <<>> }
            ELSE { f \o l \o <<NL>> : f \in Files(n - 1), l \in Lines }

\* "A;10.0\nB;5.5\nA;20.0\n"
Scenario == <<65, 59, 49, 48, 46, 48, NL, 66, 59, 53, 46, 53, NL,
              65, 59, 50, 48, 46, 48, NL>>

\* "A;.1\nB\n\nB;-2\n": a line without delimiter and an empty line.
Malformed == <<65, 59, 46, 49, NL, 66, NL, NL, 66, 59, 45, 50, NL>>

Inputs == LET whole == UNION { Files(n) : n \in 0..MaxLines }
          IN  whole \cup { SubSeq(f, 1, Len(f) - 1) : f \in whole \ { <<>> } }
                    \cup { Scenario, Malformed }

\* What lies after the mapping: a zero byte, a '-' byte, or no mapped page.
PastEnds == { 0, MINUS, FAULT }

(***************************************************************************)
(* State                                                                   *)
(***************************************************************************)
Workers == 0..(MaxThreads - 1)
NoOwner == 0 - 1
NotExited == 0 - 1

VARIABLES
    pc,              \* position of the main thread
    argc,            \* number of command-line arguments
    exit_code,       \* NotExited, or the value main returned
    cerr,            \* messages written to standard error
    data,            \* content of the input file
    past_end,        \* what a read just after the mapping finds
    file_data,       \* TRUE while the mapping exists
    num_threads,     \* hardware_concurrency()
    chunk_size,
    threads,         \* number of threads created so far
    joined,          \* number of threads joined so far
    wpc,             \* per worker: Idle, Running, Merging, Done
    start_pos,       \* per worker: first offset of its chunk
    end,             \* per worker: offset after its chunk
    cursor,          \* per worker: i of process_chunk
    local_loc_data,  \* per worker: its private table
    merge_todo,      \* per worker: keys its merge loop has yet to visit
    loc_data,        \* the shared table
    loc_data_mutex,  \* the worker holding the mutex, or NoOwner
    report_todo,     \* keys the report loop has yet to visit
    output,          \* the ostringstream of the report
    cout             \* what was written to standard output

vars == <<pc, argc, exit_code, cerr, data, past_end, file_data, num_threads,
          chunk_size, threads, joined, wpc, start_pos, end, cursor,
          local_loc_data, merge_todo, loc_data, loc_data_mutex, report_todo,
          output, cout>>

mainVars == <<pc, argc, exit_code, cerr, data, past_end, file_data, num_threads,
              chunk_size, threads, joined, report_todo, output, cout>>
fileVars == <<data, past_end, file_data, num_threads, chunk_size>>
workerVars == <<wpc, start_pos, end, cursor, local_loc_data, merge_todo,
                loc_data, loc_data_mutex>>
reportVars == <<report_todo, output, cout>>

Init ==
    /\ pc = "args"
    /\ argc \in {1, 2}
    /\ exit_code = NotExited
    /\ cerr = <<>>
    /\ data = <<>>
    /\ past_end = 0
    /\ file_data = FALSE
    /\ num_threads = 0
    /\ chunk_size = 0
    /\ threads = 0
    /\ joined = 0
    /\ wpc = [w \in Workers |-> "Idle"]
    /\ start_pos = [w \in Workers |-> 0]
    /\ end = [w \in Workers |-> 0]
    /\ cursor = [w \in Workers |-> 0]
    /\ local_loc_data = [w \in Workers |-> EmptyTable]
    /\ merge_todo = [w \in Workers |-> {}]
    /\ loc_data = EmptyTable
    /\ loc_data_mutex = NoOwner
    /\ report_todo = {}
    /\ output = <<>>
    /\ cout = <<>>

\* return 1 after a message on standard error.
Fail(msg) ==
    /\ cerr' = Append(cerr, msg)
    /\ exit_code' = 1
    /\ pc' = "exit"

(***************************************************************************)
(* The main thread                                                         *)
(***************************************************************************)
\* if (argc < 2) { usage; return 1; }
CheckArgs ==
    /\ pc = "args"
    /\ IF argc < 2
       THEN Fail("Usage")
       ELSE pc' = "open" /\ UNCHANGED <<cerr, exit_code>>
    /\ UNCHANGED <<argc, fileVars, threads, joined, workerVars, reportVars>>

\* open(file_path, O_RDONLY): fails, or opens one of the input files.
Open ==
    /\ pc = "open"
    /\ \/ Fail("Can't open input file") /\ UNCHANGED data
       \/ \E d \in Inputs :
             /\ data' = d
             /\ pc' = "fstat"
             /\ UNCHANGED <<cerr, exit_code>>
    /\ UNCHANGED <<argc, past_end, file_data, num_threads, chunk_size, threads,
                   joined, workerVars, reportVars>>

\* fstat(fd, &sb): fails, or sets sb.st_size = Len(data).
Fstat ==
    /\ pc = "fstat"
    /\ \/ Fail("Can't get file size")
       \/ pc' = "mmap" /\ UNCHANGED <<cerr, exit_code>>
    /\ UNCHANGED <<argc, fileVars, threads, joined, workerVars, reportVars>>

\* mmap(nullptr, sb.st_size, ...): fails with EINVAL when the length is 0,
\* may fail otherwise.  The byte after the last one is read only when the
\* file ends with ';', so only then is what lies there told apart.
Mmap ==
    /\ pc = "mmap"
    /\ \/ Fail("Can't map file") /\ UNCHANGED <<file_data, past_end>>
       \/ /\ Len(data) > 0
          /\ file_data' = TRUE
          /\ past_end' \in IF data[Len(data)] = SEMI THEN PastEnds ELSE {0}
          /\ pc' = "plan"
          /\ UNCHANGED <<cerr, exit_code>>
    /\ UNCHANGED <<argc, data, num_threads, chunk_size, threads, joined,
                   workerVars, reportVars>>

\* num_threads = hardware_concurrency(); chunk_size = sb.st_size / num_threads.
\* The model takes num_threads >= 1 (a value of 0 would divide by zero).
Plan ==
    /\ pc = "plan"
    /\ \E n \in 1..MaxThreads :
          /\ num_threads' = n
          /\ chunk_size' = Len(data) \div n
    /\ pc' = "spawn"
    /\ UNCHANGED <<argc, exit_code, cerr, data, past_end, file_data, threads,
                   joined, workerVars, reportVars>>

\* ChunkEnd without the case of the last thread.
ChunkEndEqualParts(i) == (i + 1) * chunk_size

\* ChunkStart one byte early: each chunk begins on the last byte of the one before.
ChunkStartOneBack(i) == IF i * chunk_size = 0 THEN 0 ELSE i * chunk_size - 1

ChunkStart(i) == i * chunk_size
ChunkEnd(i) == IF i = num_threads - 1 THEN Len(data) ELSE (i + 1) * chunk_size

\* One turn of the loop that creates the threads.
Spawn ==
    /\ pc = "spawn"
    /\ LET i == threads IN
          /\ start_pos' = [start_pos EXCEPT ![i] = ChunkStart(i)]
          /\ end' = [end EXCEPT ![i] = ChunkEnd(i)]
          /\ cursor' = [cursor EXCEPT ![i] = ChunkStart(i)]
          /\ wpc' = [wpc EXCEPT ![i] = "Running"]
          /\ threads' = i + 1
          /\ pc' = IF i + 1 < num_threads THEN "spawn" ELSE "join"
    /\ UNCHANGED <<argc, exit_code, cerr, fileVars, joined, local_loc_data,
                   merge_todo, loc_data, loc_data_mutex, reportVars>>

\* Join that returns whether or not the thread has ended.
JoinWithoutWaiting ==
    /\ pc = "join"
    /\ joined' = joined + 1
    /\ pc' = IF joined + 1 < num_threads THEN "join" ELSE "munmap"
    /\ UNCHANGED <<argc, exit_code, cerr, fileVars, threads, workerVars, reportVars>>

\* One turn of the loop that joins the threads, in creation order.
Join ==
    /\ pc = "join"
    /\ wpc[joined] = "Done"
    /\ joined' = joined + 1
    /\ pc' = IF joined + 1 < num_threads THEN "join" ELSE "munmap"
    /\ UNCHANGED <<argc, exit_code, cerr, fileVars, threads, workerVars, reportVars>>

\* munmap, close, and the header of the report.
Munmap ==
    /\ pc = "munmap"
    /\ file_data' = FALSE
    /\ output' = << [kind |-> "header"] >>
    /\ report_todo' = DOMAIN loc_data
    /\ pc' = "report"
    /\ UNCHANGED <<argc, exit_code, cerr, data, past_end, num_threads, chunk_size,
                   threads, joined, workerVars, cout>>

\* The line of the report for one entry.
ReportLineOf(key, value) ==
    [kind |-> "line", key |-> key, count |-> value.count,
     average |-> IF value.count = 0 THEN [nan |-> TRUE]
                 ELSE FDiv(value.total, FromInt(value.count)),
     temp_min |-> value.temp_min, temp_max |-> value.temp_max]

\* One turn of the report loop: unordered_map iterates in an order of its own.
ReportLine ==
    /\ pc = "report"
    /\ \E key \in report_todo :
          /\ output' = Append(output, ReportLineOf(key, loc_data[key]))
          /\ report_todo' = report_todo \ {key}
    /\ UNCHANGED <<pc, argc, exit_code, cerr, fileVars, threads, joined,
                   workerVars, cout>>

\* The elapsed time, the write to standard output, return 0.
ReportFinish ==
    /\ pc = "report"
    /\ report_todo = {}
    /\ output' = Append(output, [kind |-> "time"])
    /\ cout' = output'
    /\ exit_code' = 0
    /\ pc' = "exit"
    /\ UNCHANGED <<argc, cerr, fileVars, threads, joined, workerVars, report_todo>>

(***************************************************************************)
(* The worker threads                                                      *)
(***************************************************************************)
\* One turn of the outer loop of process_chunk.
ChunkStep(w) ==
    /\ pc # "crashed"
    /\ wpc[w] = "Running"
    /\ cursor[w] < end[w]
    /\ LET le == LineEnd(data, cursor[w], end[w]) IN
          /\ ~(ReadsPastEnd(data, cursor[w], le) /\ past_end = FAULT)
          /\ local_loc_data' = [local_loc_data EXCEPT
                ![w] = process_line(data, cursor[w], le, @, past_end)]
          /\ cursor' = [cursor EXCEPT ![w] = le + 1]
    /\ UNCHANGED <<mainVars, wpc, start_pos, end, merge_todo, loc_data, loc_data_mutex>>

\* parse_float reads str[0] at an address that is not mapped: the process dies.
ChunkFault(w) ==
    /\ pc # "crashed"
    /\ wpc[w] = "Running"
    /\ cursor[w] < end[w]
    /\ ReadsPastEnd(data, cursor[w], LineEnd(data, cursor[w], end[w]))
    /\ past_end = FAULT
    /\ pc' = "crashed"
    /\ UNCHANGED <<argc, exit_code, cerr, fileVars, threads, joined, workerVars,
                   reportVars>>

\* Lock taken before process_chunk has returned.
LockBeforeChunkEnds(w) ==
    /\ pc # "crashed"
    /\ wpc[w] = "Running"
    /\ loc_data_mutex = NoOwner
    /\ loc_data_mutex' = w
    /\ wpc' = [wpc EXCEPT ![w] = "Merging"]
    /\ merge_todo' = [merge_todo EXCEPT ![w] = DOMAIN local_loc_data[w]]
    /\ UNCHANGED <<mainVars, start_pos, end, cursor, local_loc_data, loc_data>>

\* Lock that does not wait for the mutex to be free.
LockWithoutWaiting(w) ==
    /\ pc # "crashed"
    /\ wpc[w] = "Running"
    /\ cursor[w] >= end[w]
    /\ loc_data_mutex' = w
    /\ wpc' = [wpc EXCEPT ![w] = "Merging"]
    /\ merge_todo' = [merge_todo EXCEPT ![w] = DOMAIN local_loc_data[w]]
    /\ UNCHANGED <<mainVars, start_pos, end, cursor, local_loc_data, loc_data>>

\* std::lock_guard lock(loc_data_mutex), once process_chunk has returned.
Lock(w) ==
    /\ pc # "crashed"
    /\ wpc[w] = "Running"
    /\ cursor[w] >= end[w]
    /\ loc_data_mutex = NoOwner
    /\ loc_data_mutex' = w
    /\ wpc' = [wpc EXCEPT ![w] = "Merging"]
    /\ merge_todo' = [merge_todo EXCEPT ![w] = DOMAIN local_loc_data[w]]
    /\ UNCHANGED <<mainVars, start_pos, end, cursor, local_loc_data, loc_data>>

\* One turn of the merge loop.
MergeKey(w) ==
    /\ pc # "crashed"
    /\ wpc[w] = "Merging"
    /\ \E key \in merge_todo[w] :
          /\ loc_data' = Store(loc_data, key,
                               MergeLocation(Lookup(loc_data, key), local_loc_data[w][key]))
          /\ merge_todo' = [merge_todo EXCEPT ![w] = @ \ {key}]
    /\ UNCHANGED <<mainVars, wpc, start_pos, end, cursor, local_loc_data, loc_data_mutex>>

\* Unlock that may leave the merge loop before the loop has ended.
UnlockBeforeLoopEnds(w) ==
    /\ pc # "crashed"
    /\ wpc[w] = "Merging"
    /\ loc_data_mutex' = NoOwner
    /\ wpc' = [wpc EXCEPT ![w] = "Done"]
    /\ UNCHANGED <<mainVars, start_pos, end, cursor, local_loc_data, merge_todo, loc_data>>

\* The end of the lambda: the lock is released and the thread ends.
Unlock(w) ==
    /\ pc # "crashed"
    /\ wpc[w] = "Merging"
    /\ merge_todo[w] = {}
    /\ loc_data_mutex' = NoOwner
    /\ wpc' = [wpc EXCEPT ![w] = "Done"]
    /\ UNCHANGED <<mainVars, start_pos, end, cursor, local_loc_data, merge_todo, loc_data>>

Next ==
    \/ CheckArgs
    \/ Open
    \/ Fstat
    \/ Mmap
    \/ Plan
    \/ Spawn
    \/ Join
    \/ Munmap
    \/ ReportLine
    \/ ReportFinish
    \/ \E w \in Workers : ChunkStep(w)
    \/ \E w \in Workers : ChunkFault(w)
    \/ \E w \in Workers : Lock(w)
    \/ \E w \in Workers : MergeKey(w)
    \/ \E w \in Workers : Unlock(w)

Spec == Init /\ [][Next]_vars

(***************************************************************************)
(* Definitions the properties share                                        *)
(***************************************************************************)
\* The loop of lines 147-157 run to completion: tbl folded into global.
MergeTable(global, tbl) ==
    [k \in DOMAIN global \cup DOMAIN tbl |->
        IF k \in DOMAIN tbl THEN MergeLocation(Lookup(global, k), tbl[k]) ELSE global[k]]

\* The private tables of workers 0 .. n-1 folded into global in index order.
RECURSIVE MergeInOrder(_, _, _)
MergeInOrder(tables, n, global) ==
    IF n = 0 THEN global
    ELSE MergeTable(MergeInOrder(tables, n - 1, global), tables[n - 1])

SameCountMinMax(t1, t2) ==
    /\ DOMAIN t1 = DOMAIN t2
    /\ \A k \in DOMAIN t1 :
          /\ t1[k].count = t2[k].count
          /\ FEq(t1[k].temp_min, t2[k].temp_min)
          /\ FEq(t1[k].temp_max, t2[k].temp_max)

SameTotals(t1, t2) == \A k \in DOMAIN t1 \cap DOMAIN t2 : FEq(t1[k].total, t2[k].total)

TableEq(t1, t2) == SameCountMinMax(t1, t2) /\ SameTotals(t1, t2)

\* The float is an integer below 2^20 in magnitude: sums of up to sixteen
\* such floats are exact.
IsIntegral(f) == f.m = 0 \/ (f.e <= 0 - 4 /\ f.e > 0 - MantBits /\ f.m % 2^(0 - f.e) = 0)

\* The lines of data[s, e) as a set of <<first offset, offset after last>>,
\* cut at newlines the way a scan from s sees them.
LinesOf(d, s, e) ==
    LET starts == { ls \in s..(e - 1) : ls = s \/ d[ls] = NL }
    IN  { <<ls, CHOOSE le \in ls..e :
                   /\ (le = e \/ d[le + 1] = NL)
                   /\ \A j \in ls..(le - 1) : d[j + 1] # NL>> : ls \in starts }

HasDelimiter(d, ls, le) == \E j \in ls..(le - 1) : d[j + 1] = SEMI

\* The key of a line with a delimiter: the bytes before its first ';'.
KeyOf(d, ls, le) ==
    LET dp == CHOOSE j \in ls..(le - 1) :
                 d[j + 1] = SEMI /\ \A i \in ls..(j - 1) : d[i + 1] # SEMI
    IN  SubSeq(d, ls + 1, dp)

\* The value of a line with a delimiter: what follows its first ';', parsed.
ValueOf(d, ls, le, past) ==
    LET dp == CHOOSE j \in ls..(le - 1) :
                 d[j + 1] = SEMI /\ \A i \in ls..(j - 1) : d[i + 1] # SEMI
    IN  parse_float(d, dp + 1, le - dp - 1, past)

\* std::string's operator<: lexicographic on the bytes.
KeyLess(a, b) ==
    \E n \in 0..Len(a) :
        /\ n <= Len(b)
        /\ \A i \in 1..n : a[i] = b[i]
        /\ IF n = Len(a) THEN n < Len(b) ELSE n < Len(b) /\ a[n + 1] < b[n + 1]

Finished == pc = "exit" /\ exit_code = 0

(***************************************************************************)
(* C1: every interior chunk boundary handed to a worker lies immediately   *)
(* after a newline byte, so no record is split between two workers.        *)
(* The code cuts at multiples of chunk_size, wherever they fall.           *)
(***************************************************************************)
C1_BoundariesFollowNewline ==
    \A w \in 1..(threads - 1) :
        (start_pos[w] > 0 /\ start_pos[w] < Len(data)) => data[start_pos[w]] = NL

(***************************************************************************)
(* C2: the table after all workers have finished equals the table of one   *)
(* sequential process_chunk over [0, L), whatever the worker count.        *)
(***************************************************************************)
C2_EqualsSequentialPass ==
    Finished => TableEq(loc_data, process_chunk(data, 0, Len(data), EmptyTable, past_end))

(***************************************************************************)
(* C3: the ranges given to the workers are contiguous, do not overlap and  *)
(* cover [0, L): the first starts at 0, each next one starts where the     *)
(* previous one ends, the last one ends at L.                              *)
(***************************************************************************)
C3_ChunksTile ==
    /\ \A w \in 0..(threads - 1) : 0 <= start_pos[w] /\ start_pos[w] <= end[w]
    /\ threads > 0 => start_pos[0] = 0
    /\ \A w \in 1..(threads - 1) : start_pos[w] = end[w - 1]
    /\ (threads > 0 /\ threads = num_threads) => end[threads - 1] = Len(data)

\* Three workers over a two-byte file: two empty ranges and [0, 2).
C3_Witness ==
    /\ threads = 3 /\ num_threads = 3 /\ Len(data) = 2
    /\ start_pos[2] = 0 /\ end[2] = 2 /\ end[0] = 0

(***************************************************************************)
(* C5: for fixed private tables, every order in which the workers take the *)
(* merge lock gives the same final table: the table equals the one the     *)
(* workers give when they merge in index order.                            *)
(* What holds: the key set, counts, minima and maxima are the same in every*)
(* order; the sums are the same when every private sum is a small integer  *)
(* (no addition then rounds), and may differ by rounding otherwise.        *)
(***************************************************************************)
AllMerged ==
    /\ threads > 0 /\ threads = num_threads
    /\ \A w \in 0..(num_threads - 1) :
          wpc[w] = "Done" \/ (wpc[w] = "Merging" /\ merge_todo[w] = {})

IntegralTotals ==
    \A w \in 0..(num_threads - 1) :
        \A k \in DOMAIN local_loc_data[w] : IsIntegral(local_loc_data[w][k].total)

\* C5 as stated: after all merges the shared table equals the index-order merge.
C5_AnyOrderSameTable ==
    AllMerged => TableEq(loc_data, MergeInOrder(local_loc_data, num_threads, EmptyTable))

\* C5, what holds: equal key set, counts, minima, maxima; equal sums when exact.
C5_AnyOrderSameButRounding ==
    AllMerged =>
        LET inOrder == MergeInOrder(local_loc_data, num_threads, EmptyTable) IN
        /\ SameCountMinMax(loc_data, inOrder)
        /\ IntegralTotals => SameTotals(loc_data, inOrder)

\* Worker 0 is the last of three to merge, and all three hold the same key.
C5_Witness ==
    /\ AllMerged /\ num_threads = 3 /\ IntegralTotals
    /\ wpc[0] = "Merging" /\ wpc[1] = "Done" /\ wpc[2] = "Done"
    /\ \E k \in DOMAIN loc_data :
          /\ \A w \in 0..2 : k \in DOMAIN local_loc_data[w]
          /\ loc_data[k].count = 3

(***************************************************************************)
(* C6: a zero-length input file is processed without error: exit code 0,   *)
(* an empty table and a report of the header alone.                        *)
(* mmap refuses a length of 0, so the run ends with "Can't map file".      *)
(***************************************************************************)
\* C6: an opened and sized file of length 0 ends in exit code 0 and a bare report.
C6_EmptyFileReport ==
    (pc = "exit" /\ Len(data) = 0
        /\ cerr \notin { <<"Usage">>, <<"Can't open input file">>, <<"Can't get file size">> })
    => /\ exit_code = 0
       /\ cerr = <<>>
       /\ loc_data = EmptyTable
       /\ cout = << [kind |-> "header"], [kind |-> "time"] >>

(***************************************************************************)
(* C7: a line without ';' (an empty line too) changes nothing: a step of   *)
(* process_chunk over such a line leaves the worker's table as it was.     *)
(***************************************************************************)
C7_NoDelimiterNoChange ==
    [][\A w \in Workers :
          (wpc[w] = "Running" /\ cursor'[w] # cursor[w]
              /\ ~HasDelimiter(data, cursor[w], cursor'[w] - 1))
          => local_loc_data'[w] = local_loc_data[w]]_vars

\* A worker whose table is not empty has just passed a line without ';'.
C7_Witness ==
    \E w \in Workers :
        /\ wpc[w] = "Running"
        /\ local_loc_data[w] # EmptyTable
        /\ \E line \in LinesOf(data, start_pos[w], end[w]) :
              /\ line[2] + 1 = cursor[w]
              /\ ~HasDelimiter(data, line[1], line[2])

(***************************************************************************)
(* What a single pass over well-formed input is expected to give           *)
(***************************************************************************)
IsDigit(c) == c >= ZERO /\ c <= ZERO + 9

\* [vs, ve) is: optional '-', digits, optional '.', digits, one digit at least.
IsDecimal(d, vs, ve) ==
    LET body == IF vs < ve /\ d[vs + 1] = MINUS THEN vs + 1 ELSE vs
    IN  /\ \E j \in body..(ve - 1) : IsDigit(d[j + 1])
        /\ \A j \in body..(ve - 1) : IsDigit(d[j + 1]) \/ d[j + 1] = DOT
        /\ Cardinality({ j \in body..(ve - 1) : d[j + 1] = DOT }) <= 1

\* key;value with a key, one ';' and a decimal value.
WellFormedLine(d, ls, le) ==
    /\ Cardinality({ j \in ls..(le - 1) : d[j + 1] = SEMI }) = 1
    /\ d[ls + 1] # SEMI
    /\ LET dp == CHOOSE j \in ls..(le - 1) : d[j + 1] = SEMI
       IN  IsDecimal(d, dp + 1, le)

WellFormed(d) ==
    /\ Len(d) > 0
    /\ \A line \in LinesOf(d, 0, Len(d)) : WellFormedLine(d, line[1], line[2])

\* The lines of a well-formed d that carry key k.
LinesWithKey(d, k) ==
    { line \in LinesOf(d, 0, Len(d)) : KeyOf(d, line[1], line[2]) = k }

KeysOf(d) == { KeyOf(d, line[1], line[2]) : line \in LinesOf(d, 0, Len(d)) }

\* The values of the lines in ls, added in the order of the file.
RECURSIVE SumOf(_, _)
SumOf(d, ls) ==
    IF ls = {} THEN F(0, 0, 0)
    ELSE LET last == CHOOSE l \in ls : \A m \in ls : m[1] <= l[1]
         IN  FAdd(SumOf(d, ls \ {last}), ValueOf(d, last[1], last[2], 0))

\* The integer an integral float stands for.
ToInt(f) ==
    LET mag == IF f.m = 0 THEN 0
               ELSE IF f.e >= 0 THEN f.m * 2^f.e ELSE f.m \div 2^(0 - f.e)
    IN  IF f.s = 1 THEN 0 - mag ELSE mag

RECURSIVE IntSumOf(_, _)
IntSumOf(d, ls) ==
    IF ls = {} THEN 0
    ELSE LET l == CHOOSE x \in ls : TRUE
         IN  ToInt(ValueOf(d, l[1], l[2], 0)) + IntSumOf(d, ls \ {l})

\* tbl holds, for each key of d and no other, the count, sum, least and
\* greatest of the values of the key's lines.
HoldsStatsOf(tbl, d) ==
    /\ DOMAIN tbl = KeysOf(d)
    /\ \A k \in KeysOf(d) :
          LET ls   == LinesWithKey(d, k)
              vals == { ValueOf(d, l[1], l[2], 0) : l \in ls }
          IN  /\ tbl[k].count = Cardinality(ls)
              /\ FEq(tbl[k].total, SumOf(d, ls))
              /\ (\A v \in vals : IsIntegral(v))
                    => FEq(tbl[k].total, FromInt(IntSumOf(d, ls)))
              /\ \E v \in vals : FEq(tbl[k].temp_min, v)
              /\ \A v \in vals : ~FLess(v, tbl[k].temp_min)
              /\ \E v \in vals : FEq(tbl[k].temp_max, v)
              /\ \A v \in vals : ~FLess(tbl[k].temp_max, v)

\* Every value of d lies between the initial temp_max and the initial temp_min.
WithinSentinels(d) ==
    \A line \in LinesOf(d, 0, Len(d)) :
        LET v == ValueOf(d, line[1], line[2], 0)
        IN  ~FLess(v, NewLocation.temp_max) /\ ~FLess(NewLocation.temp_min, v)

(***************************************************************************)
(* C8: with one worker over well-formed key;value lines, the final table   *)
(* maps each key to the number of its lines, the sum of their values, the  *)
(* smallest and the largest of them, and holds no other key.               *)
(* What holds: this holds when every value lies in [-99, 99], the initial  *)
(* temp_max and temp_min; a larger value leaves temp_min at 99, a smaller  *)
(* one leaves temp_max at -99.  The sum is the float sum in file order.    *)
(***************************************************************************)
\* C8 as stated: one worker, well-formed lines, any values.
C8_SinglePassStats ==
    (Finished /\ num_threads = 1 /\ WellFormed(data)) => HoldsStatsOf(loc_data, data)

\* C8, what holds: one worker, well-formed lines, values within [-99, 99].
C8_SinglePassStatsInRange ==
    (Finished /\ num_threads = 1 /\ WellFormed(data) /\ WithinSentinels(data))
        => HoldsStatsOf(loc_data, data)

\* The scenario A;10.0 / B;5.5 / A;20.0 with its expected table.
C8_Witness ==
    /\ Finished /\ num_threads = 1 /\ data = Scenario
    /\ WellFormed(data) /\ WithinSentinels(data)
    /\ DOMAIN loc_data = { <<65>>, <<66>> }
    /\ loc_data[<<65>>] = [count |-> 2, total |-> FromInt(30),
                           temp_min |-> FromInt(10), temp_max |-> FromInt(20)]
    /\ loc_data[<<66>>] = [count |-> 1, total |-> FRound(0, 11, 0 - 1),
                           temp_min |-> FRound(0, 11, 0 - 1),
                           temp_max |-> FRound(0, 11, 0 - 1)]

(***************************************************************************)
(* C9: in every state, every entry with count > 0 of every table (private  *)
(* or shared) has temp_min <= v <= temp_max for every value v accumulated  *)
(* into it, by process_line or through a merge: each value a worker has    *)
(* parsed is bracketed by the entry of its key in the worker's table and,  *)
(* once the worker has merged that key, by the entry of the shared table.  *)
(***************************************************************************)
\* The lines worker w has passed to process_line that hold a ';': those of
\* its chunk that start before its cursor.
LinesSeen(w) ==
    { l \in LinesOf(data, start_pos[w], end[w]) :
        l[1] < cursor[w] /\ HasDelimiter(data, l[1], l[2]) }

\* Worker w has folded its entry of key k into the shared table.
HasMerged(w, k) ==
    /\ k \in DOMAIN local_loc_data[w]
    /\ wpc[w] = "Done" \/ (wpc[w] = "Merging" /\ k \notin merge_todo[w])

\* The values folded into key k of the shared table so far.
ValuesMerged(k) ==
    { ValueOf(data, l[1], l[2], past_end) :
        l \in UNION { { x \in LinesSeen(w) : KeyOf(data, x[1], x[2]) = k } :
                        w \in { y \in Workers : HasMerged(y, k) } } }

Brackets(tbl, k, v) ==
    /\ k \in DOMAIN tbl
    /\ tbl[k].count > 0
    /\ ~FLess(v, tbl[k].temp_min)
    /\ ~FLess(tbl[k].temp_max, v)

\* C9: every value accumulated into an entry lies between its temp_min and temp_max.
C9_MinMaxBracket ==
    \A w \in Workers : \A l \in LinesSeen(w) :
        LET k == KeyOf(data, l[1], l[2])
            v == ValueOf(data, l[1], l[2], past_end)
        IN  /\ Brackets(local_loc_data[w], k, v)
            /\ HasMerged(w, k) => Brackets(loc_data, k, v)

\* A shared entry merged from two workers, with distinct values.
C9_Witness ==
    \E k \in DOMAIN loc_data :
        /\ loc_data[k].count >= 2
        /\ Cardinality(ValuesMerged(k)) >= 2
        /\ Cardinality({ w \in Workers : wpc[w] = "Done" /\ k \in DOMAIN local_loc_data[w] }) >= 2
        /\ FLess(loc_data[k].temp_min, loc_data[k].temp_max)

(***************************************************************************)
(* C10: the report writes the lines of the keys in ascending key order.    *)
(* The report loop walks the unordered_map in the map's own order.         *)
(***************************************************************************)
C10_ReportSorted ==
    \A i, j \in 1..Len(output) :
        (i < j /\ output[i].kind = "line" /\ output[j].kind = "line")
            => KeyLess(output[i].key, output[j].key)

(***************************************************************************)
(* Aggregation by groups: the lines of a file of whole records are dealt   *)
(* one by one to groups, each with a table of its own filled by            *)
(* process_line; the group tables are then folded into the shared table by *)
(* the merge loop, in any order.  The group tables are local_loc_data[g],  *)
(* cursor[0] is the offset of the next line to deal.                       *)
(***************************************************************************)
Groups == 0..(MaxGroups - 1)

PartInit ==
    /\ pc = "part"
    /\ argc = 2
    /\ exit_code = NotExited
    /\ cerr = <<>>
    /\ data \in UNION { Files(n) : n \in 1..MaxLines } \cup { Scenario, Malformed }
    /\ past_end = 0
    /\ file_data = TRUE
    /\ num_threads = 0
    /\ chunk_size = 0
    /\ threads = 0
    /\ joined = 0
    /\ wpc = [w \in Workers |-> "Idle"]
    /\ start_pos = [w \in Workers |-> 0]
    /\ end = [w \in Workers |-> 0]
    /\ cursor = [w \in Workers |-> 0]
    /\ local_loc_data = [w \in Workers |-> EmptyTable]
    /\ merge_todo = [w \in Workers |-> {}]
    /\ loc_data = EmptyTable
    /\ loc_data_mutex = NoOwner
    /\ report_todo = {}
    /\ output = <<>>
    /\ cout = <<>>

\* process_line on the next line, into the table of some group.
PartAggregate ==
    /\ pc = "part"
    /\ cursor[0] < Len(data)
    /\ LET le == LineEnd(data, cursor[0], Len(data)) IN
          /\ \E g \in Groups :
                local_loc_data' = [local_loc_data EXCEPT
                    ![g] = process_line(data, cursor[0], le, @, past_end)]
          /\ cursor' = [cursor EXCEPT ![0] = le + 1]
    /\ UNCHANGED <<mainVars, wpc, start_pos, end, merge_todo, loc_data, loc_data_mutex>>

\* The merge loop over the table of group g.
PartFold(g) ==
    /\ pc = "part"
    /\ cursor[0] >= Len(data)
    /\ wpc[g] = "Idle"
    /\ loc_data' = MergeTable(loc_data, local_loc_data[g])
    /\ wpc' = [wpc EXCEPT ![g] = "Done"]
    /\ UNCHANGED <<mainVars, start_pos, end, cursor, local_loc_data, merge_todo,
                   loc_data_mutex>>

PartNext ==
    \/ PartAggregate
    \/ \E g \in Groups : PartFold(g)

PartSpec == PartInit /\ [][PartNext]_vars

AllFolded == pc = "part" /\ \A g \in Groups : wpc[g] = "Done"

IntegralValues(d) ==
    \A line \in LinesOf(d, 0, Len(d)) :
        HasDelimiter(d, line[1], line[2]) => IsIntegral(ValueOf(d, line[1], line[2], 0))

(***************************************************************************)
(* C4: for any partition of whole records into groups, aggregating each    *)
(* group into its own table and folding the tables with the merge rule     *)
(* gives, for every key, the count, sum, min and max of a single pass.     *)
(* What holds: the key set, counts, minima and maxima are those of a single*)
(* pass; the sums are those of a single pass when every value is a small   *)
(* integer (no addition then rounds), and may differ from them by rounding *)
(* otherwise.                                                              *)
(***************************************************************************)
\* C4 as stated: the folded group tables equal the single-pass table.
C4_GroupsEqualSinglePass ==
    AllFolded => TableEq(loc_data, process_chunk(data, 0, Len(data), EmptyTable, past_end))

\* C4, what holds: equal key set, counts, minima, maxima; equal sums when exact.
C4_GroupsEqualButRounding ==
    AllFolded =>
        LET single == process_chunk(data, 0, Len(data), EmptyTable, past_end) IN
        /\ SameCountMinMax(loc_data, single)
        /\ IntegralValues(data) => SameTotals(loc_data, single)

\* Three integer records of one key, dealt to two groups and folded.
C4_Witness ==
    /\ AllFolded /\ IntegralValues(data)
    /\ \E k \in DOMAIN loc_data :
          /\ \A g \in Groups : k \in DOMAIN local_loc_data[g]
          /\ loc_data[k].count = 3
          /\ ~FEq(loc_data[k].total, F(0, 0, 0))

(***************************************************************************)
(* C11: when the file's final line has no trailing newline, the worker of  *)
(* the last chunk passes that line, all bytes from the last newline up to  *)
(* L, to process_line; and no line passed to process_line holds a newline. *)
(* A worker's cursor ends at L + 1 exactly when the last line it passed    *)
(* ran up to L without a newline; that line starts at the worker's         *)
(* start_pos when the final line starts before it.                         *)
(***************************************************************************)
\* The offset after the last newline of d, 0 when there is none.
FinalLineStart(d) ==
    IF \E j \in 1..Len(d) : d[j] = NL
    THEN CHOOSE j \in 1..Len(d) : d[j] = NL /\ \A i \in (j + 1)..Len(d) : d[i] # NL
    ELSE 0

\* The lines worker w has passed to process_line so far.
LinesPassed(w) ==
    { l \in LinesOf(data, start_pos[w], end[w]) : l[1] < cursor[w] }

\* C11: the unterminated final line is passed whole, and no passed line holds a newline.
C11_FinalLinePassedWhole ==
    \A w \in Workers :
        /\ cursor[w] = Len(data) + 1
              => <<FinalLineStart(data), Len(data)>> \in LinesPassed(w)
        /\ \A l \in LinesPassed(w) : \A j \in l[1]..(l[2] - 1) : data[j + 1] # NL

(***************************************************************************)
(* parse_float on its own: a span of the grammar (optional '-', digits,    *)
(* optional '.', digits) lies at the start of the buffer, followed by a    *)
(* newline or by a '-' (the byte str[0] is when the span is empty);        *)
(* end[0] is its length, output receives the float returned.               *)
(***************************************************************************)
MaxSpan == 4

Digits == { ZERO, ZERO + 1, ZERO + 3, ZERO + 5, ZERO + 7, ZERO + 9 }

RECURSIVE DigitStrings(_)
DigitStrings(n) == IF n = 0 THEN { <<>> }
                   ELSE { s \o <<d>> : s \in DigitStrings(n - 1), d \in Digits }

\* The spans of the grammar of at most MaxSpan bytes.
Spans ==
    LET shapes == { t \in { <<>>, <<MINUS>> } \X (0..MaxSpan) \X { <<>>, <<DOT>> }
                              \X (0..MaxSpan) :
                      /\ Len(t[1]) + t[2] + Len(t[3]) + t[4] <= MaxSpan
                      /\ (t[3] = <<>> => t[4] = 0) }
    IN  UNION { { t[1] \o ip \o t[3] \o fp :
                    ip \in DigitStrings(t[2]), fp \in DigitStrings(t[4]) } :
                t \in shapes }

ParseInit ==
    /\ pc = "parse"
    /\ argc = 2
    /\ exit_code = NotExited
    /\ cerr = <<>>
    /\ \E span \in Spans, follow \in { NL, MINUS } :
          /\ data = span \o <<follow>>
          /\ end = [w \in Workers |-> IF w = 0 THEN Len(span) ELSE 0]
    /\ past_end = 0
    /\ file_data = TRUE
    /\ num_threads = 0
    /\ chunk_size = 0
    /\ threads = 0
    /\ joined = 0
    /\ wpc = [w \in Workers |-> "Idle"]
    /\ start_pos = [w \in Workers |-> 0]
    /\ cursor = [w \in Workers |-> 0]
    /\ local_loc_data = [w \in Workers |-> EmptyTable]
    /\ merge_todo = [w \in Workers |-> {}]
    /\ loc_data = EmptyTable
    /\ loc_data_mutex = NoOwner
    /\ report_todo = {}
    /\ output = <<>>
    /\ cout = <<>>

\* The call parse_float(data, end[0]).
ParseCall ==
    /\ pc = "parse"
    /\ output' = << [kind |-> "float",
                     value |-> parse_float(data, start_pos[0], end[0], past_end)] >>
    /\ pc' = "parsed"
    /\ UNCHANGED <<argc, exit_code, cerr, fileVars, threads, joined, workerVars,
                   report_todo, cout>>

ParseNext == ParseCall

ParseSpec == ParseInit /\ [][ParseNext]_vars

\* The span of a state of ParseSpec and what it denotes.
SpanOf == SubSeq(data, 1, end[0])

IsNegative(span) == Len(span) > 0 /\ span[1] = MINUS

\* The number of digits after the '.', 0 when there is none.
FractionDigits(span) ==
    IF \E i \in 1..Len(span) : span[i] = DOT
    THEN Len(span) - (CHOOSE i \in 1..Len(span) : span[i] = DOT)
    ELSE 0

\* The integer the digits of the span spell, sign and point left out.
RECURSIVE DigitsValue(_)
DigitsValue(span) ==
    IF span = <<>> THEN 0
    ELSE LET b == span[Len(span)]
             r == DigitsValue(SubSeq(span, 1, Len(span) - 1))
         IN  IF b = MINUS \/ b = DOT THEN r ELSE 10 * r + (b - ZERO)

\* The float nearest to the decimal value of the span: the correctly rounded
\* quotient of two integers that floats hold exactly.
Nearest(span) ==
    LET q == FDiv(FromInt(DigitsValue(span)), FromInt(10^FractionDigits(span)))
    IN  IF IsNegative(span) THEN FNeg(q) ELSE q

\* The number of floats from a to b; 2^24 when they are not neighbours of
\* the same sign.  -0 and +0 are the same value.
UlpsApart(a, b) ==
    IF a.m = 0 /\ b.m = 0 THEN 0
    ELSE IF a.s # b.s \/ a.m = 0 \/ b.m = 0 THEN 2^MantBits
    ELSE IF a.e = b.e THEN (IF a.m > b.m THEN a.m - b.m ELSE b.m - a.m)
    ELSE IF a.e = b.e + 1 THEN (a.m - 2^(MantBits - 1)) + (2^MantBits - b.m)
    ELSE IF b.e = a.e + 1 THEN (b.m - 2^(MantBits - 1)) + (2^MantBits - a.m)
    ELSE 2^MantBits

(***************************************************************************)
(* C12: for every span of the grammar parse_float returns the decimal      *)
(* value the span denotes up to rounding: the float returned is the        *)
(* nearest one when the span has no fractional digit, and at most one      *)
(* float away from it per fractional digit otherwise; an empty integer or  *)
(* fractional part counts as 0 (".5" gives 0.5, "5." gives 5.0) and a      *)
(* leading '-' gives the negated value.                                    *)
(***************************************************************************)
C12_ParsesDecimal ==
    pc = "parsed" =>
        LET r == output[1].value IN
        /\ UlpsApart(r, Nearest(SpanOf)) <= FractionDigits(SpanOf)
        /\ SpanOf = <<DOT, ZERO + 5>> => r = FRound(0, 1, 0 - 1)
        /\ SpanOf = <<ZERO + 5, DOT>> => r = FromInt(5)
        /\ (IsNegative(SpanOf) /\ r.m # 0) => r.s = 1

\* "-.5" parsed to -0.5.
C12_Witness ==
    /\ pc = "parsed"
    /\ SpanOf = <<MINUS, DOT, ZERO + 5>>
    /\ output[1].value = FRound(1, 1, 0 - 1)

\* A span whose parsed value is not the nearest float (".9" is one).
C12_RoundedWitness ==
    /\ pc = "parsed"
    /\ UlpsApart(output[1].value, Nearest(SpanOf)) = 1

(***************************************************************************)
(* C13: the shared table changes only in a step of the worker that holds   *)
(* the mutex, and at most one worker holds it: the workers in the merge    *)
(* block are exactly the owner of the mutex, in every interleaving.        *)
(***************************************************************************)
\* At most one worker is in the merge block, and it is the owner of the mutex.
OneHolder ==
    /\ \A w \in Workers : wpc[w] = "Merging" <=> loc_data_mutex = w
    /\ Cardinality({ w \in Workers : wpc[w] = "Merging" }) <= 1

\* A step that changes the shared table is a merge step of the owner of the
\* mutex, who owns it before and after the step.
WriteUnderLock ==
    loc_data' # loc_data =>
        /\ loc_data_mutex \in Workers
        /\ loc_data_mutex' = loc_data_mutex
        /\ wpc[loc_data_mutex] = "Merging"
        /\ merge_todo'[loc_data_mutex] # merge_todo[loc_data_mutex]
        /\ \A w \in Workers \ { loc_data_mutex } : merge_todo'[w] = merge_todo[w]

\* C13: writes to loc_data happen under the mutex, which one worker holds at a time.
C13_MergeUnderLock == [](OneHolder) /\ [][WriteUnderLock]_vars

\* One worker has written to the shared table under the mutex while another,
\* its chunk finished, waits for the mutex.
C13_Witness ==
    \E w1, w2 \in Workers :
        /\ w1 # w2
        /\ loc_data_mutex = w1 /\ wpc[w1] = "Merging"
        /\ local_loc_data[w1] # EmptyTable /\ merge_todo[w1] = {}
        /\ loc_data # EmptyTable
        /\ wpc[w2] = "Running" /\ cursor[w2] >= end[w2]
        /\ local_loc_data[w2] # EmptyTable

(***************************************************************************)
(* C14: whenever the mutex is free, the shared table is the private tables *)
(* of exactly the workers that are Done, each folded in whole and once by  *)
(* the merge loop, in some order (the order in which they took the mutex); *)
(* the tables of the other workers have not been folded in at all.         *)
(***************************************************************************)
\* The tables that folding the private tables of the workers of S into an
\* empty table can give, one table per order of folding.
RECURSIVE FoldsOf(_)
FoldsOf(S) ==
    IF S = {} THEN { EmptyTable }
    ELSE UNION { { MergeTable(g, local_loc_data[w]) : g \in FoldsOf(S \ {w}) } : w \in S }

DoneWorkers == { w \in Workers : wpc[w] = "Done" }

\* C14: with the mutex free, loc_data is the fold of the tables of the Done workers.
C14_GlobalIsFoldOfDone ==
    loc_data_mutex = NoOwner => loc_data \in FoldsOf(DoneWorkers)

\* The mutex is free, two workers are Done with an entry for the same key,
\* and a third, still running, has an entry for it that is not in loc_data.
C14_Witness ==
    /\ loc_data_mutex = NoOwner
    /\ \E k \in DOMAIN loc_data : \E u \in Workers \ DoneWorkers :
          /\ Cardinality({ w \in DoneWorkers : k \in DOMAIN local_loc_data[w] }) = 2
          /\ wpc[u] = "Running" /\ k \in DOMAIN local_loc_data[u]
          /\ loc_data[k].count = 2
          /\ loc_data \in FoldsOf(DoneWorkers)

(***************************************************************************)
(* C15: a worker only moves forward through Idle, Running, Merging, Done.  *)
(* It takes the mutex in one step only, the step from Running to Merging,  *)
(* which needs its whole chunk scanned; its private table changes only     *)
(* while it is Running and does not own the mutex; once Done it takes no   *)
(* mutex and changes no table.                                             *)
(***************************************************************************)
ForwardSteps == { <<"Idle", "Running">>, <<"Running", "Merging">>, <<"Merging", "Done">> }

WorkerForward(w) ==
    /\ wpc'[w] # wpc[w] => <<wpc[w], wpc'[w]>> \in ForwardSteps
    /\ (loc_data_mutex' = w /\ loc_data_mutex # w)
          <=> (wpc[w] = "Running" /\ wpc'[w] = "Merging")
    /\ (wpc[w] = "Running" /\ wpc'[w] = "Merging")
          => (cursor[w] >= end[w] /\ loc_data_mutex = NoOwner)
    /\ local_loc_data'[w] # local_loc_data[w]
          => (wpc[w] = "Running" /\ wpc'[w] = "Running" /\ loc_data_mutex # w
              /\ loc_data_mutex' # w /\ loc_data' = loc_data)
    /\ wpc[w] = "Done"
          => /\ wpc'[w] = "Done"
             /\ loc_data_mutex # w /\ loc_data_mutex' # w
             /\ local_loc_data'[w] = local_loc_data[w]
             /\ cursor'[w] = cursor[w]
             /\ merge_todo'[w] = merge_todo[w]
             /\ loc_data' # loc_data => loc_data_mutex \in Workers \ {w}

\* C15: every step keeps every worker on the path Idle, Running, Merging, Done.
C15_WorkerMovesForward == [][\A w \in Workers : WorkerForward(w)]_vars

\* A worker is Done after it put two records into its table without the
\* mutex and folded them in under it; another worker now owns the mutex.
C15_Witness ==
    \E w, u \in Workers :
        /\ wpc[w] = "Done" /\ cursor[w] >= end[w]
        /\ \E k \in DOMAIN local_loc_data[w] :
              local_loc_data[w][k].count >= 2 /\ k \in DOMAIN loc_data
        /\ u # w /\ loc_data_mutex = u /\ wpc[u] = "Merging"

(***************************************************************************)
(* C16: the main thread unmaps the file and reads the shared table for the *)
(* report only when every worker it created is Done; from then on no       *)
(* worker scans the buffer or writes to a table.                           *)
(***************************************************************************)
\* The main thread is past the joins: about to unmap, reporting, or returned 0.
PastJoins == pc \in { "munmap", "report" } \/ Finished

AllWorkersDone == \A w \in 0..(num_threads - 1) : wpc[w] = "Done"

JoinedBeforeRelease ==
    /\ PastJoins => (AllWorkersDone /\ loc_data_mutex = NoOwner /\ joined = num_threads)
    /\ (threads > 0 /\ ~file_data /\ pc # "crashed") => PastJoins

\* The mapping goes and the table is read only past the joins, and past the
\* joins the workers' cursors and all tables stay as they are.
QuietAfterJoins ==
    /\ (file_data /\ ~file_data') => (pc = "munmap" /\ AllWorkersDone)
    /\ output' # output => (PastJoins /\ AllWorkersDone)
    /\ PastJoins => UNCHANGED <<cursor, local_loc_data, merge_todo, loc_data,
                                loc_data_mutex, wpc>>

\* C16: release and report come after all workers are Done, and nothing of the workers after.
C16_ReportAfterAllDone == [](JoinedBeforeRelease) /\ [][QuietAfterJoins]_vars

\* The mapping is released and the report has read an entry of the table
\* that two workers, both Done, folded into.
C16_Witness ==
    /\ pc = "report" /\ ~file_data
    /\ num_threads >= 2 /\ AllWorkersDone
    /\ Len(output) >= 2
    /\ \E k \in DOMAIN loc_data \ report_todo :
          Cardinality({ w \in Workers : k \in DOMAIN local_loc_data[w] }) >= 2

(***************************************************************************)
(* C18: every offset a worker reads lies in [0, L).                        *)
(* process_chunk reads data[i] only for i < end, find(';') reads inside    *)
(* the line, parse_float reads str[i] for i < len, and str[0] whatever len *)
(* is: for a line that ends with ';' at the end of the file, str[0] is the *)
(* byte at offset L.                                                       *)
(***************************************************************************)
\* The highest offset read while the line [ls, le) of a chunk that ends at
\* e is scanned and passed to process_line (ls - 1 when nothing is read).
HighestRead(d, ls, le, e) ==
    LET dp      == FindDelimiter(d, ls, le)
        scanned == IF le < e THEN le ELSE le - 1
    IN  IF dp < le /\ dp + 1 > scanned THEN dp + 1 ELSE scanned

\* C18: the lines the workers have processed were read within the buffer.
C18_ReadsInBounds ==
    /\ pc # "crashed"
    /\ \A w \in Workers : \A l \in LinesPassed(w) :
          HighestRead(data, l[1], l[2], end[w]) < Len(data)

(***************************************************************************)
(* Fair scheduling: the main thread and every worker thread, as long as it *)
(* can take a step, eventually takes one.  A worker that waits for the     *)
(* mutex can take a step whenever the mutex is free.                       *)
(***************************************************************************)
MainStep ==
    \/ CheckArgs
    \/ Open
    \/ Fstat
    \/ Mmap
    \/ Plan
    \/ Spawn
    \/ Join
    \/ Munmap
    \/ ReportLine
    \/ ReportFinish

WorkerStep(w) ==
    \/ ChunkStep(w)
    \/ ChunkFault(w)
    \/ Lock(w)
    \/ MergeKey(w)
    \/ Unlock(w)

FairSpec ==
    /\ Init
    /\ [][Next]_vars
    /\ WF_vars(MainStep)
    /\ \A w \in Workers : WF_vars(WorkerStep(w))

(***************************************************************************)
(* C17: under fair scheduling every run on a mapped input ends with the    *)
(* report: each turn of the loop of process_chunk moves the cursor up, so  *)
(* every worker gets through its chunk, takes and releases the mutex and   *)
(* is Done, and the main thread gets past the joins and reports.           *)
(* The run of a file that ends in ';' can die in parse_float before that   *)
(* (see C18); every other run does end with the report.                    *)
(***************************************************************************)
\* C17: once the file is mapped, the run comes to the end of the report.
C17_Terminates == (pc = "plan") ~> Finished

\* What the code does guarantee: a mapped run whose read after the mapping
\* does not fault comes to the end of the report, all workers Done.
C17_TerminatesUnlessFault ==
    (pc = "plan" /\ past_end # FAULT) ~> (Finished /\ AllWorkersDone)

\* Every turn of the loop of process_chunk moves the cursor up.
C17_CursorAdvances ==
    [][\A w \in Workers : cursor'[w] # cursor[w] =>
            (cursor'[w] > cursor[w] \/ wpc[w] = "Idle")]_vars

(***************************************************************************)
(* C19: every entry of every table, private or shared, has count >= 1: an  *)
(* entry comes into a table in the step that adds a positive count to it.  *)
(* So no line of the report has count 0, and value.total / value.count is  *)
(* never a division by zero.                                               *)
(***************************************************************************)
CountsPositive(tbl) == \A k \in DOMAIN tbl : tbl[k].count >= 1

\* C19: no table holds an entry with count 0 and no report line divides by 0.
C19_CountsPositive ==
    /\ CountsPositive(loc_data)
    /\ \A w \in Workers : CountsPositive(local_loc_data[w])
    /\ \A i \in 1..Len(output) :
          output[i].kind = "line" =>
              (output[i].count >= 1 /\ "nan" \notin DOMAIN output[i].average)

\* The report of the file A;.1 / B / (empty line) / B;-2: the two lines
\* without ';' made no entry, the two entries have count 1 and an average.
C19_Witness ==
    /\ Finished /\ data = Malformed
    /\ DOMAIN loc_data = { <<65>>, <<66>> }
    /\ Len(output) = 4
    /\ \A i \in 2..3 : output[i].count = 1 /\ output[i].average = output[i].temp_min

(***************************************************************************)
(* C20: chunking neither loses nor repeats a record.  When no line of the  *)
(* file holds more than one ';', the counts of the final shared table add  *)
(* up to the number of lines of the file that hold a ';', whatever the     *)
(* number of workers and wherever the chunk boundaries fall: every ';' is  *)
(* in exactly one chunk and there in exactly one piece of a line.          *)
(***************************************************************************)
RECURSIVE SumOfCounts(_)
SumOfCounts(tbl) ==
    IF DOMAIN tbl = {} THEN 0
    ELSE LET k == CHOOSE x \in DOMAIN tbl : TRUE
         IN  tbl[k].count + SumOfCounts([y \in DOMAIN tbl \ {k} |-> tbl[y]])

\* The lines of the whole file that hold a ';'.
RecordLines(d) == { l \in LinesOf(d, 0, Len(d)) : HasDelimiter(d, l[1], l[2]) }

AtMostOneDelimiter(d) ==
    \A l \in LinesOf(d, 0, Len(d)) :
        Cardinality({ j \in l[1]..(l[2] - 1) : d[j + 1] = SEMI }) <= 1

\* Some chunk boundary lies inside a line.
BoundaryInsideLine ==
    \E w \in 1..(num_threads - 1) :
        start_pos[w] > 0 /\ start_pos[w] < Len(data) /\ data[start_pos[w]] # NL

\* C20: the counts of the final table add up to the number of lines with a ';'.
C20_CountsAddUp ==
    (Finished /\ AtMostOneDelimiter(data))
        => SumOfCounts(loc_data) = Cardinality(RecordLines(data))

\* Three records cut by three workers inside lines, and three counted.
C20_Witness ==
    /\ Finished /\ AtMostOneDelimiter(data)
    /\ num_threads = 3 /\ BoundaryInsideLine
    /\ Cardinality(RecordLines(data)) = 3
    /\ SumOfCounts(loc_data) = 3
    /\ ~TableEq(loc_data, process_chunk(data, 0, Len(data), EmptyTable, past_end))

====
